---- MODULE Spec2Model ----
(***************************************************************************)
(* PilExifManager (kpilexifmanager/pilexifmgr.py) and its base class       *)
(* (kpilexifmanager/baseclass.py) as a state machine over one manager      *)
(* object.  Python values are tagged records [t, v] so that a str and a    *)
(* bytes object with the same content stay different values, as they are   *)
(* in Python 3.  Text is a sequence of code points, bytes a sequence of    *)
(* 0..255.  A call either returns (exc = "") or raises (exc = the name of  *)
(* the exception).                                                         *)
(***************************************************************************)
EXTENDS Integers, Sequences, FiniteSets, TLC

VARIABLES
    metadata,            \* self.metadata: top-level key -> Python value
    _filepath,           \* self._filepath: None or the loaded path
    _temporal_keywords,  \* self._temporal_keywords: list of str
    disk,                \* output files written by piexif.insert
    last,                \* the last call: its name, arguments and outcome
    hist                 \* history of the keywords given since the last load

vars == <<metadata, _filepath, _temporal_keywords, disk, last, hist>>

(***************************************************************************)
(* Python values                                                           *)
(***************************************************************************)
None == [t |-> "None", v |-> <<>>]
Str(s) == [t |-> "str", v |-> s]
Bytes(b) == [t |-> "bytes", v |-> b]
PyInt(n) == [t |-> "int", v |-> n]
Tuple(s) == [t |-> "tuple", v |-> s]
List(s) == [t |-> "list", v |-> s]
EmptyMap == [k \in {} |-> None]
Dict(f) == [t |-> "dict", v |-> f]
EmptyDict == Dict(EmptyMap)

Ok(x) == [exc |-> "", val |-> x]
Raise(e) == [exc |-> e, val |-> None]

\* d[k] = x on a mapping
Put(f, k, x) == [j \in (DOMAIN f) \cup {k} |-> IF j = k THEN x ELSE f[j]]

(***************************************************************************)
(* Text and byte helpers (str.upper, str.split, str.join, the codecs)      *)
(***************************************************************************)
SEMICOLON == 59
NUL == 0

RECURSIVE Flatten(_)
Flatten(ss) == IF ss = <<>> THEN <<>> ELSE Head(ss) \o Flatten(Tail(ss))

\* str.upper() on the ASCII letters
UpperChar(c) == IF c >= 97 /\ c <= 122 THEN c - 32 ELSE c
Upper(s) == [i \in 1..Len(s) |-> UpperChar(s[i])]

\* sep.join(parts)
RECURSIVE Join(_, _)
Join(parts, sep) ==
    IF parts = <<>> THEN <<>>
    ELSE IF Len(parts) = 1 THEN parts[1]
    ELSE parts[1] \o <<sep>> \o Join(Tail(parts), sep)

\* index of the first occurrence of c in s, 0 when there is none
FirstIndex(s, c) ==
    IF \E i \in 1..Len(s) : s[i] = c
    THEN CHOOSE i \in 1..Len(s) : s[i] = c /\ \A j \in 1..(i - 1) : s[j] # c
    ELSE 0

\* s.split(sep): always at least one part, "" splits to [""]
RECURSIVE Split(_, _)
Split(s, sep) ==
    LET i == FirstIndex(s, sep)
    IN IF i = 0 THEN <<s>>
       ELSE <<SubSeq(s, 1, i - 1)>> \o Split(SubSeq(s, i + 1, Len(s)), sep)

\* s.split(sep, maxsplit=1)[0]
SplitFirst(s, sep) ==
    LET i == FirstIndex(s, sep)
    IN IF i = 0 THEN s ELSE SubSeq(s, 1, i - 1)

\* str.encode('utf-8') for code points of the Basic Multilingual Plane
Utf8Char(c) ==
    IF c < 128 THEN <<c>>
    ELSE IF c < 2048 THEN <<192 + (c \div 64), 128 + (c % 64)>>
    ELSE <<224 + (c \div 4096), 128 + ((c \div 64) % 64), 128 + (c % 64)>>
utf8_encode(s) == Flatten([i \in 1..Len(s) |-> Utf8Char(s[i])])

IsCont(b, i) == i <= Len(b) /\ b[i] >= 128 /\ b[i] < 192

\* bytes.decode('utf-8'): Ok(code points) or UnicodeDecodeError
RECURSIVE utf8_decode(_)
utf8_decode(b) ==
    IF b = <<>> THEN Ok(<<>>)
    ELSE LET h == b[1]
             n == IF h < 128 THEN 1
                  ELSE IF h >= 194 /\ h < 224 /\ IsCont(b, 2) THEN 2
                  ELSE IF h >= 224 /\ h < 240 /\ IsCont(b, 2) /\ IsCont(b, 3)
                          /\ ((h - 224) * 4096 + (b[2] - 128) * 64) >= 2048
                       THEN 3
                  ELSE 0
             c == IF n = 1 THEN h
                  ELSE IF n = 2 THEN (h - 192) * 64 + (b[2] - 128)
                  ELSE (h - 224) * 4096 + (b[2] - 128) * 64 + (b[3] - 128)
         IN IF n = 0 THEN Raise("UnicodeDecodeError")
            ELSE LET rest == utf8_decode(SubSeq(b, n + 1, Len(b)))
                 IN IF rest.exc # "" THEN rest ELSE Ok(<<c>> \o rest.val)

\* str.encode('utf-16'): byte order mark FF FE, then little-endian units
utf16_encode(s) ==
    <<255, 254>> \o Flatten([i \in 1..Len(s) |-> <<s[i] % 256, s[i] \div 256>>])

\* bytes.decode('utf-16'): a leading mark selects the byte order and is
\* dropped, no mark means little-endian; an odd tail is an error
utf16_decode(b) ==
    LET le == Len(b) >= 2 /\ b[1] = 255 /\ b[2] = 254
        be == Len(b) >= 2 /\ b[1] = 254 /\ b[2] = 255
        body == IF le \/ be THEN SubSeq(b, 3, Len(b)) ELSE b
    IN IF Len(body) % 2 # 0 THEN Raise("UnicodeDecodeError")
       ELSE Ok([i \in 1..(Len(body) \div 2) |->
                   IF be THEN body[2 * i - 1] * 256 + body[2 * i]
                   ELSE body[2 * i - 1] + body[2 * i] * 256])

(***************************************************************************)
(* kmarotools.basics.convert: the four conversions the manager calls.      *)
(* A datetime is a record of its six fields.  An angle or an altitude (a   *)
(* Python float) is an integer count of units: 1/360000 degree (a          *)
(* hundredth of an arc second) for angles, 1/100 metre for altitudes.      *)
(***************************************************************************)
IsDigit(c) == c >= 48 /\ c <= 57

RECURSIVE Num(_)
Num(s) == IF s = <<>> THEN 0 ELSE Num(SubSeq(s, 1, Len(s) - 1)) * 10 + (s[Len(s)] - 48)

RECURSIVE Pad(_, _)
Pad(n, w) == IF w = 0 THEN <<>> ELSE Pad(n \div 10, w - 1) \o <<48 + (n % 10)>>

IsLeap(y) == (y % 4 = 0 /\ y % 100 # 0) \/ y % 400 = 0
DaysIn(y, m) ==
    IF m = 2 THEN (IF IsLeap(y) THEN 29 ELSE 28)
    ELSE IF m \in {4, 6, 9, 11} THEN 30 ELSE 31

datetime(y, mo, d, h, mi, s) ==
    [year |-> y, month |-> mo, day |-> d, hour |-> h, minute |-> mi, second |-> s]

\* convert.datetime2str(dt, ":", " ", ":") -> "YYYY:MM:DD HH:MM:SS"
datetime2str(dt, dsep, sep, tsep) ==
    Pad(dt.year, 4) \o <<dsep>> \o Pad(dt.month, 2) \o <<dsep>> \o Pad(dt.day, 2)
    \o <<sep>> \o Pad(dt.hour, 2) \o <<tsep>> \o Pad(dt.minute, 2)
    \o <<tsep>> \o Pad(dt.second, 2)

\* convert.str2datetime(s, ":", " ", ":"): the datetime, or ValueError
str2datetime(s, dsep, sep, tsep) ==
    LET shape == /\ Len(s) = 19
                 /\ s[5] = dsep /\ s[8] = dsep /\ s[11] = sep
                 /\ s[14] = tsep /\ s[17] = tsep
                 /\ \A i \in (1..19) \ {5, 8, 11, 14, 17} : IsDigit(s[i])
        y == Num(SubSeq(s, 1, 4))
        mo == Num(SubSeq(s, 6, 7))
        d == Num(SubSeq(s, 9, 10))
        h == Num(SubSeq(s, 12, 13))
        mi == Num(SubSeq(s, 15, 16))
        sc == Num(SubSeq(s, 18, 19))
    IN IF shape /\ y >= 1 /\ mo \in 1..12 /\ d >= 1 /\ d <= DaysIn(y, mo)
          /\ h <= 23 /\ mi <= 59 /\ sc <= 59
       THEN Ok(datetime(y, mo, d, h, mi, sc))
       ELSE Raise("ValueError")

Abs(x) == IF x < 0 THEN -x ELSE x

\* convert.deg2dms_zone(deg, (pos, neg)) -> (degrees, minutes, seconds, zone);
\* the seconds are kept in hundredths, the zone is one of the two labels
deg2dms_zone(deg, zones) ==
    LET a == Abs(deg)
    IN <<a \div 360000, (a % 360000) \div 6000, a % 6000,
         IF deg >= 0 THEN zones[1] ELSE zones[2]>>

\* convert.dms_zone2deg(degs, mins, secs, zone_positive), all in angle units
dms_zone2deg(degs, mins, secs, zone_positive) ==
    IF zone_positive THEN degs + mins + secs ELSE -(degs + mins + secs)

(***************************************************************************)
(* Access to the nested dictionaries of self.metadata                      *)
(***************************************************************************)
\* m[ifd][tag]
Item(m, ifd, tag) ==
    IF ifd \notin DOMAIN m THEN Raise("KeyError")
    ELSE IF m[ifd].t = "dict"
         THEN (IF tag \in DOMAIN m[ifd].v THEN Ok(m[ifd].v[tag]) ELSE Raise("KeyError"))
    ELSE IF m[ifd].t \in {"str", "bytes", "tuple"} THEN Raise("IndexError")
    ELSE Raise("TypeError")

\* tag in m[ifd]
Contains(m, ifd, tag) ==
    IF ifd \notin DOMAIN m THEN Raise("KeyError")
    ELSE IF m[ifd].t = "dict" THEN Ok(tag \in DOMAIN m[ifd].v)
    ELSE IF m[ifd].t = "tuple" THEN Ok(FALSE)
    ELSE Raise("TypeError")

\* m[ifd][tag] = x
SetItem(m, ifd, tag, x) ==
    IF ifd \notin DOMAIN m THEN Raise("KeyError")
    ELSE IF m[ifd].t = "dict"
         THEN Ok([m EXCEPT ![ifd] = Dict(Put(m[ifd].v, tag, x))])
    ELSE Raise("TypeError")

(***************************************************************************)
(* PrivateTools._gps2val and the getters of PilExifManager                 *)
(***************************************************************************)
\* n / d of one rational (n, d), scaled to the unit of the result
Quot(r, scale) ==
    IF r.t # "tuple" THEN Raise("TypeError")
    ELSE IF Len(r.v) < 2 THEN Raise("IndexError")
    ELSE IF r.v[2] = 0 THEN Raise("ZeroDivisionError")
    ELSE Ok((r.v[1] * scale) \div r.v[2])

_gps2val(gps_metadata_tuple, zone_positive) ==
    IF gps_metadata_tuple.t # "tuple" THEN Raise("TypeError")
    ELSE IF Len(gps_metadata_tuple.v) < 3 THEN Raise("IndexError")
    ELSE LET degs == Quot(gps_metadata_tuple.v[1], 360000)
             mins == Quot(gps_metadata_tuple.v[2], 6000)
             secs == Quot(gps_metadata_tuple.v[3], 100)
         IN IF degs.exc # "" THEN degs
            ELSE IF mins.exc # "" THEN mins
            ELSE IF secs.exc # "" THEN secs
            ELSE Ok(dms_zone2deg(degs.val, mins.val, secs.val, zone_positive))

\* one coordinate of get_gps_data: value, reference, conversion
GpsCoord(m, tag, reftag, positive) ==
    LET meta_dat == Item(m, "GPS", tag)
        zbn == Item(m, "GPS", reftag)
    IN IF meta_dat.exc # "" THEN meta_dat
       ELSE IF zbn.exc # "" THEN zbn
       ELSE _gps2val(meta_dat.val, zbn.val = positive)

get_gps_data(m) ==
    LET lat == GpsCoord(m, "GPSLatitude", "GPSLatitudeRef", Bytes(<<78>>))
        lon == GpsCoord(m, "GPSLongitude", "GPSLongitudeRef", Bytes(<<69>>))
        meta_dat == Item(m, "GPS", "GPSAltitude")
        alt_ref == Item(m, "GPS", "GPSAltitudeRef")
        alt == Quot(meta_dat.val, 100)
    IN IF lat.exc # "" THEN lat
       ELSE IF lon.exc # "" THEN lon
       ELSE IF meta_dat.exc # "" THEN meta_dat
       ELSE IF alt_ref.exc # "" THEN alt_ref
       ELSE IF alt.exc # "" THEN alt
       ELSE Ok([lat |-> lat.val, lon |-> lon.val, alt |-> alt.val,
                msl |-> (alt_ref.val = PyInt(1))])

has_gps_data(m) ==
    LET r == get_gps_data(m)
    IN IF r.exc = "" THEN Ok(TRUE)
       ELSE IF r.exc = "KeyError" THEN Ok(FALSE)
       ELSE Raise(r.exc)

has_date_original(m) == Contains(m, "Exif", "DateTimeOriginal")
has_date_digitized(m) == Contains(m, "Exif", "DateTimeDigitized")

\* the body shared by get_date_original and get_date_digitized
GetDate(m, tag) ==
    LET dttkn == Item(m, "Exif", tag)
    IN IF dttkn.exc # "" THEN dttkn
       ELSE IF dttkn.val.t # "bytes" THEN Raise("AttributeError")
       ELSE LET txt == utf8_decode(dttkn.val.v)
                dt == str2datetime(txt.val, 58, 32, 58)
            IN IF txt.exc # "" \/ dt.exc # ""
               THEN Ok(datetime(1, 1, 1, 0, 0, 0))
               ELSE dt

get_date_original(m) == GetDate(m, "DateTimeOriginal")
get_date_digitized(m) == GetDate(m, "DateTimeDigitized")

has_valid_date_original(m) ==
    LET h == has_date_original(m)
        d == get_date_original(m)
    IN IF h.exc # "" THEN h
       ELSE IF ~h.val THEN Ok(FALSE)
       ELSE IF d.exc # "" THEN d
       ELSE Ok(d.val.year # 1)

has_valid_date_digitized(m) ==
    LET h == has_date_digitized(m)
        d == get_date_digitized(m)
    IN IF h.exc # "" THEN h
       ELSE IF ~h.val THEN Ok(FALSE)
       ELSE IF d.exc # "" THEN d
       ELSE Ok(d.val.year # 1)

\* bytes(x) of a bytes object or of a tuple of ints
ToBytes(x) == IF x.t \in {"bytes", "tuple"} THEN Ok(x.v) ELSE Raise("TypeError")

get_keywords(m) ==
    LET has0th == "0th" \in DOMAIN m
        has == Contains(m, "0th", "XPKeywords")
    IN IF ~has0th THEN Ok(List(<<>>))
       ELSE IF has.exc # "" THEN has
       ELSE IF ~has.val THEN Ok(List(<<>>))
       ELSE LET tags_bytes == ToBytes(m["0th"].v["XPKeywords"])
                decoded == utf16_decode(tags_bytes.val)
            IN IF tags_bytes.exc # "" THEN tags_bytes
               ELSE IF decoded.exc # "" THEN decoded
               ELSE LET tags_str == SplitFirst(decoded.val, NUL)
                        parts == Split(tags_str, SEMICOLON)
                    IN Ok(List([i \in 1..Len(parts) |-> Str(parts[i])]))

\* the body shared by get_camera_maker, get_camera_model, get_description
\* and get_copyright
GetText(m, tag) ==
    LET has0th == "0th" \in DOMAIN m
        has == Contains(m, "0th", tag)
    IN IF ~has0th THEN Ok(Str(<<>>))
       ELSE IF has.exc # "" THEN has
       ELSE IF ~has.val THEN Ok(Str(<<>>))
       ELSE Ok(m["0th"].v[tag])

get_camera_maker(m) == GetText(m, "Make")
get_camera_model(m) == GetText(m, "Model")
get_description(m) == GetText(m, "ImageDescription")
get_copyright(m) == GetText(m, "Copyright")

(***************************************************************************)
(* Image files.  A file has a name, may or may not be an image PIL can     *)
(* open, and carries the entries of img.info; each entry has its raw value *)
(* and the outcome of piexif.load on it: the parsed dictionary or one of   *)
(* the errors _load_metadata handles.                                      *)
(***************************************************************************)
EDITABLE_EXTENSIONS == {<<74, 80, 71>>, <<74, 80, 69, 71>>}
READABLE_EXTENSIONS == EDITABLE_EXTENSIONS \cup {<<80, 78, 71>>}

HandledErrors ==
    {"UnidentifiedImageError", "TypeError", "ValueError", "OSError", "struct.error"}

\* pathlib: Path(name).suffix, the last dot and what follows it, when the dot
\* is neither the first nor the last character of the name
Suffix(name) ==
    LET dots == {i \in 1..Len(name) : name[i] = 46}
        i == CHOOSE k \in dots : \A l \in dots : l <= k
    IN IF dots = {} THEN <<>>
       ELSE IF i > 1 /\ i < Len(name) THEN SubSeq(name, i, Len(name))
       ELSE <<>>

\* file.suffix[1:].upper()
Extension(name) ==
    LET sfx == Suffix(name)
    IN Upper(IF sfx = <<>> THEN <<>> ELSE Tail(sfx))

\* what piexif.load returns on success: the five IFDs and the thumbnail
PiexifDict(zeroth, exif, gps) ==
    Dict([k \in {"0th", "Exif", "GPS", "Interop", "1st", "thumbnail"} |->
            IF k = "0th" THEN Dict(zeroth)
            ELSE IF k = "Exif" THEN Dict(exif)
            ELSE IF k = "GPS" THEN Dict(gps)
            ELSE IF k = "thumbnail" THEN None
            ELSE EmptyDict])

_load_metadata(file2load) ==
    IF ~file2load.image THEN Raise("UnidentifiedImageError")
    ELSE Ok([kwd \in DOMAIN file2load.info |->
                LET e == file2load.info[kwd]
                IN IF e.load.exc = "" THEN e.load.val
                   ELSE IF e.load.exc = "struct.error" THEN EmptyDict
                   ELSE e.raw])

_load_exif_data(file2load, add_basic_keywords) ==
    LET loaded == _load_metadata(file2load)
        data_dict == loaded.val
        exif_dict == IF "exif" \in DOMAIN data_dict THEN data_dict["exif"]
                     ELSE EmptyDict
        others == (DOMAIN data_dict) \ {"exif"}
        merged == Dict([k \in (DOMAIN exif_dict.v) \cup others |->
                           IF k \in others THEN data_dict[k] ELSE exif_dict.v[k]])
        kwds2add == {"Exif", "0th", "1st", "GPS"}
        filled == Dict([k \in (DOMAIN merged.v) \cup kwds2add |->
                           IF k \in DOMAIN merged.v THEN merged.v[k] ELSE EmptyDict])
    IN IF loaded.exc # "" THEN loaded
       ELSE IF exif_dict.t # "dict"
            THEN (IF others # {} \/ add_basic_keywords THEN Raise("TypeError")
                  ELSE Ok(exif_dict))
       ELSE IF add_basic_keywords THEN Ok(filled)
       ELSE Ok(merged)

(***************************************************************************)
(* The manager object                                                      *)
(***************************************************************************)
Path(name) == [t |-> "Path", v |-> name]
Call(op, arg, exc) == [op |-> op, arg |-> arg, exc |-> exc]
NoHist == [held |-> {}, given |-> {}, valid |-> FALSE]

\* the strings of a list of str, as a set
Elems(l) == {l.v[i].v : i \in 1..Len(l.v)}

Init == /\ metadata = EmptyMap
        /\ _filepath = None
        /\ _temporal_keywords = <<>>
        /\ disk = {}
        /\ last = Call("__init__", None, "")
        /\ hist = NoHist

\* load_file with the suffix checked after the path and the keyword list
\* were already replaced
load_file_checks_late(file) ==
    LET bad == Extension(file.name) \notin READABLE_EXTENSIONS
        r == _load_exif_data(file, TRUE)
    IN /\ _temporal_keywords' = <<>>
       /\ _filepath' = Path(file.name)
       /\ metadata' = IF ~bad /\ r.exc = "" THEN r.val.v ELSE metadata
       /\ last' = Call("load_file", file, IF bad THEN "AssertionError" ELSE r.exc)
       /\ hist' = NoHist
       /\ UNCHANGED disk

load_file(file) ==
    IF Extension(file.name) \notin READABLE_EXTENSIONS
    THEN /\ last' = Call("load_file", file, "AssertionError")
         /\ UNCHANGED <<metadata, _filepath, _temporal_keywords, disk, hist>>
    ELSE LET r == _load_exif_data(file, TRUE)
             kw == get_keywords(r.val.v)
         IN /\ _temporal_keywords' = <<>>
            /\ _filepath' = Path(file.name)
            /\ metadata' = IF r.exc = "" THEN r.val.v ELSE metadata
            /\ last' = Call("load_file", file, r.exc)
            /\ hist' = IF r.exc = "" /\ kw.exc = ""
                       THEN [held |-> Elems(kw.val), given |-> {}, valid |-> TRUE]
                       ELSE NoHist
            /\ UNCHANGED disk

\* piexif.dump and piexif.insert are the library's; reaching them is
\* recorded as the write of the output file
save_file(filename, overwrite) ==
    LET sfx == Extension(_filepath.v)
        output_file == IF filename # <<>> THEN filename ELSE _filepath.v
    IN IF _filepath = None \/ ~(sfx \notin EDITABLE_EXTENSIONS)
       THEN /\ last' = Call("save_file", <<filename, overwrite>>, "AssertionError")
            /\ UNCHANGED <<metadata, _filepath, _temporal_keywords, disk, hist>>
       ELSE /\ disk' = disk \cup {[source |-> _filepath.v, target |-> output_file,
                                   itername |-> ~overwrite]}
            /\ last' = Call("save_file", <<filename, overwrite>>, "")
            /\ UNCHANGED <<metadata, _filepath, _temporal_keywords, hist>>

clear_metadata ==
    /\ metadata' = EmptyMap
    /\ last' = Call("clear_metadata", None, "")
    /\ hist' = NoHist
    /\ UNCHANGED <<_filepath, _temporal_keywords, disk>>

\* the assignments self.metadata[ifd][tag] = value of one setter, in order:
\* the first one that raises ends the call
RECURSIVE Assign(_, _, _)
Assign(m, ifd, items) ==
    IF items = <<>> THEN Ok(m)
    ELSE LET r == SetItem(m, ifd, items[1][1], items[1][2])
         IN IF r.exc # "" THEN r ELSE Assign(r.val, ifd, Tail(items))

\* a setter that touches nothing but self.metadata
Setter(op, arg, r) ==
    /\ metadata' = IF r.exc = "" THEN r.val ELSE metadata
    /\ last' = Call(op, arg, r.exc)
    /\ UNCHANGED <<_filepath, _temporal_keywords, disk, hist>>

set_date_original(new_datetime) ==
    LET datetime2add == datetime2str(new_datetime, 58, 32, 58)
    IN Setter("set_date_original", new_datetime,
              Assign(metadata, "Exif",
                     << <<"SubSecTimeOriginal", Bytes(<<48, 48>>)>>,
                        <<"DateTimeOriginal", Bytes(utf8_encode(datetime2add))>> >>))

set_date_digitized(new_datetime) ==
    LET datetime2add == datetime2str(new_datetime, 58, 32, 58)
    IN Setter("set_date_digitized", new_datetime,
              Assign(metadata, "Exif",
                     << <<"SubSecTimeDigitized", Bytes(<<48, 48>>)>>,
                        <<"DateTimeDigitized", Bytes(utf8_encode(datetime2add))>> >>))

set_artist(artist) ==
    Setter("set_artist", Str(artist),
           SetItem(metadata, "0th", "Artist", Bytes(utf8_encode(artist))))

set_camera_maker(camera_maker) ==
    Setter("set_camera_maker", Str(camera_maker),
           SetItem(metadata, "0th", "Make", Bytes(utf8_encode(camera_maker))))

set_camera_model(camera_model) ==
    Setter("set_camera_model", Str(camera_model),
           SetItem(metadata, "0th", "Model", Bytes(utf8_encode(camera_model))))

set_copyright(img_copyright) ==
    Setter("set_copyright", Str(img_copyright),
           SetItem(metadata, "0th", "Copyright", Bytes(utf8_encode(img_copyright))))

set_exif_version(version) ==
    Setter("set_exif_version", Str(version),
           SetItem(metadata, "Exif", "ExifVersion", Bytes(utf8_encode(version))))

set_software(software) ==
    Setter("set_software", Str(software),
           SetItem(metadata, "0th", "Software", Bytes(utf8_encode(software))))

set_orientation(orientation) ==
    Setter("set_orientation", PyInt(orientation),
           SetItem(metadata, "0th", "Orientation", PyInt(orientation)))

\* (degrees, 1), (minutes, 1), (int(seconds * 100), 100)
GpsTuple(dmsz) ==
    Tuple(<<Tuple(<<dmsz[1], 1>>), Tuple(<<dmsz[2], 1>>), Tuple(<<dmsz[3], 100>>)>>)

set_gps_data(lat, lon, alt, mean_sea_level) ==
    LET lat_dmsz == deg2dms_zone(lat, <<Str(<<78>>), Str(<<83>>)>>)
        lon_dmsz == deg2dms_zone(lon, <<Str(<<69>>), Str(<<87>>)>>)
    IN Setter("set_gps_data", <<lat, lon, alt, mean_sea_level>>,
              Assign(metadata, "GPS",
                     << <<"GPSVersionID", Tuple(<<2, 2, 0, 0>>)>>,
                        <<"GPSAltitudeRef", PyInt(IF mean_sea_level THEN 1 ELSE 0)>>,
                        <<"GPSLatitudeRef", lat_dmsz[4]>>,
                        <<"GPSLongitudeRef", lon_dmsz[4]>>,
                        <<"GPSLatitude", GpsTuple(lat_dmsz)>>,
                        <<"GPSLongitude", GpsTuple(lon_dmsz)>>,
                        <<"GPSAltitude", Tuple(<<alt, 100>>)>> >>))

InSeq(x, s) == \E i \in 1..Len(s) : s[i] = x

add_keywords(keywords, overwrite) ==
    LET NotHeld(kwd) == ~InSeq(kwd, _temporal_keywords)
        new_keys2add == SelectSeq(keywords, NotHeld)
        new_keywords == IF ~overwrite
                        THEN Join(_temporal_keywords \o new_keys2add, SEMICOLON)
                        ELSE Join(keywords, SEMICOLON)
        utf16_keywords == utf16_encode(new_keywords)
        r == SetItem(metadata, "0th", "XPKeywords", Bytes(utf16_keywords))
    IN /\ metadata' = IF r.exc = "" THEN r.val ELSE metadata
       /\ last' = Call("add_keywords", <<keywords, overwrite>>, r.exc)
       /\ hist' = IF r.exc = "" /\ ~overwrite /\ hist.valid
                  THEN [hist EXCEPT !.given = @ \cup {keywords[i] : i \in 1..Len(keywords)}]
                  ELSE NoHist
       /\ UNCHANGED <<_filepath, _temporal_keywords, disk>>

(***************************************************************************)
(* Inputs                                                                  *)
(***************************************************************************)
MaxKeywords == 2     \* longest keyword list given to add_keywords
MaxDegrees == 1      \* largest whole degree of a coordinate given to set_gps_data

\* file names: a.jpg, a.JPEG, a.Png (readable), a.gif, .png (not readable:
\* the second one is a hidden file without suffix)
NameJpg == <<97, 46, 106, 112, 103>>
NameJpeg == <<97, 46, 74, 80, 69, 71>>
NamePng == <<97, 46, 80, 110, 103>>
NameGif == <<97, 46, 103, 105, 102>>
NameHidden == <<46, 112, 110, 103>>
BadNames == {NameGif, NameHidden}

\* contents of an EXIF block as piexif.load parses it
NoExif == PiexifDict(EmptyMap, EmptyMap, EmptyMap)

\* a camera file: maker "C", keywords "a;b" as UTF-16-LE bytes with the
\* terminating NUL, a valid original date, an unparsable digitized date,
\* a position 1 deg 2' 3.04" S, 0 deg 0' 0.5" W, 12.5 m below sea level
CameraExif ==
    PiexifDict(
        [k \in {"Make", "XPKeywords"} |->
            IF k = "Make" THEN Bytes(<<67>>)
            ELSE Tuple(<<97, 0, 59, 0, 98, 0, 0, 0>>)],
        [k \in {"DateTimeOriginal", "DateTimeDigitized"} |->
            IF k = "DateTimeOriginal"
            THEN Bytes(utf8_encode(datetime2str(datetime(2020, 2, 29, 1, 2, 3), 58, 32, 58)))
            ELSE Bytes(<<110, 111, 255>>)],
        [k \in {"GPSLatitude", "GPSLatitudeRef", "GPSLongitude", "GPSLongitudeRef",
                "GPSAltitude", "GPSAltitudeRef"} |->
            CASE k = "GPSLatitude" ->
                   Tuple(<<Tuple(<<1, 1>>), Tuple(<<2, 1>>), Tuple(<<304, 100>>)>>)
              [] k = "GPSLatitudeRef" -> Bytes(<<83>>)
              [] k = "GPSLongitude" ->
                   Tuple(<<Tuple(<<0, 1>>), Tuple(<<0, 1>>), Tuple(<<50, 100>>)>>)
              [] k = "GPSLongitudeRef" -> Bytes(<<87>>)
              [] k = "GPSAltitude" -> Tuple(<<1250, 100>>)
              [] OTHER -> PyInt(0)])

\* a damaged file: keywords stored with an odd number of bytes, an original
\* date in the year 1, an impossible digitized date (30 February), a
\* latitude with a zero denominator
OddExif ==
    PiexifDict(
        [k \in {"XPKeywords"} |-> Tuple(<<97, 0, 59>>)],
        [k \in {"DateTimeOriginal", "DateTimeDigitized"} |->
            IF k = "DateTimeOriginal"
            THEN Bytes(utf8_encode(datetime2str(datetime(1, 5, 6, 7, 8, 9), 58, 32, 58)))
            ELSE Bytes(utf8_encode(datetime2str(datetime(2020, 2, 30, 1, 2, 3), 58, 32, 58)))],
        [k \in {"GPSLatitude", "GPSLatitudeRef", "GPSLongitude", "GPSLongitudeRef",
                "GPSAltitude", "GPSAltitudeRef"} |->
            CASE k = "GPSLatitude" ->
                   Tuple(<<Tuple(<<1, 0>>), Tuple(<<2, 1>>), Tuple(<<304, 100>>)>>)
              [] k = "GPSLatitudeRef" -> Bytes(<<78>>)
              [] k = "GPSLongitude" ->
                   Tuple(<<Tuple(<<0, 1>>), Tuple(<<0, 1>>), Tuple(<<50, 100>>)>>)
              [] k = "GPSLongitudeRef" -> Bytes(<<69>>)
              [] k = "GPSAltitude" -> Tuple(<<0, 100>>)
              [] OTHER -> PyInt(1)])

ExifDicts == {NoExif, CameraExif, OddExif}

\* raw values of img.info: the EXIF bytes "Exif\0\0", a dpi pair, the text
\* "x" of a PNG text chunk
RawExif == Bytes(<<69, 120, 105, 102, 0, 0>>)
RawDpi == Tuple(<<72, 72>>)
RawText == Str(<<120>>)

Entry(raw, load) == [raw |-> raw, load |-> load]
Outcomes(raw, dicts) ==
    {Entry(raw, Ok(d)) : d \in dicts} \cup {Entry(raw, Raise(e)) : e \in HandledErrors}

\* the info entries of an image: an 'exif' entry or none, and at most one
\* other entry, named 'dpi' or named 'GPS' like one of the basic keys
ExifInfos == {EmptyMap} \cup {[k \in {"exif"} |-> e] : e \in Outcomes(RawExif, ExifDicts)}
OtherInfos ==
    {EmptyMap}
    \cup {[k \in {"dpi"} |-> e] : e \in Outcomes(RawDpi, {NoExif})}
    \cup {[k \in {"GPS"} |-> e] : e \in Outcomes(RawText, {NoExif})}
Merge(f, g) == [k \in (DOMAIN f) \cup (DOMAIN g) |-> IF k \in DOMAIN f THEN f[k] ELSE g[k]]

File(name, image, info) == [name |-> name, image |-> image, info |-> info]
ExifFile(name, d) == File(name, TRUE, [k \in {"exif"} |-> Entry(RawExif, Ok(d))])

AllFiles ==
    {File(n, TRUE, Merge(e, o)) : n \in {NameJpg, NamePng}, e \in ExifInfos, o \in OtherInfos}
    \cup {ExifFile(NameJpeg, CameraExif)}
    \cup {File(n, TRUE, EmptyMap) : n \in BadNames}
    \cup {File(NameJpg, FALSE, EmptyMap)}

\* a few files for the specifications that are about something else
Files ==
    {ExifFile(NameJpg, CameraExif), ExifFile(NamePng, NoExif), File(NameGif, TRUE, EmptyMap)}
KeywordFiles ==
    {ExifFile(NameJpg, CameraExif), ExifFile(NameJpeg, OddExif), ExifFile(NamePng, NoExif)}

\* text: "", "a", e-acute; keywords: "a", "b", "", and "c;" which holds
\* the separator
Texts == {<<>>, <<97>>, <<233>>}
Keywords == {<<97>>, <<98>>, <<>>, <<99, 59>>}
RECURSIVE SeqsUpTo(_, _)
SeqsUpTo(S, n) ==
    IF n = 0 THEN {<<>>}
    ELSE LET shorter == SeqsUpTo(S, n - 1)
         IN shorter \cup {Append(q, x) : q \in shorter, x \in S}
KeywordLists == SeqsUpTo(Keywords, MaxKeywords)

Dates == {datetime(2021, 12, 31, 23, 59, 58), datetime(1, 1, 1, 0, 0, 0),
          datetime(1, 5, 6, 7, 8, 9)}

\* angles from -MaxDegrees to +MaxDegrees degrees, in hundredths of an arc
\* second: whole degrees, and either side of zero by half an arc second
Angles == {d * 360000 : d \in (-MaxDegrees)..MaxDegrees} \cup {-50, 50, 366104, -366104}
Altitudes == {0, 1250}

(***************************************************************************)
(* Specifications                                                          *)
(***************************************************************************)
\* the whole interface, every mutator with one argument
Next ==
    \/ \E f \in Files : load_file(f)
    \/ save_file(<<>>, FALSE)
    \/ clear_metadata
    \/ set_date_original(datetime(2021, 12, 31, 23, 59, 58))
    \/ set_date_digitized(datetime(2021, 12, 31, 23, 59, 58))
    \/ set_artist(<<97>>)
    \/ set_camera_maker(<<97>>)
    \/ set_camera_model(<<97>>)
    \/ set_copyright(<<97>>)
    \/ set_exif_version(<<48, 50, 50, 48>>)
    \/ set_software(<<97>>)
    \/ set_orientation(1)
    \/ set_gps_data(360000, -50, 0, TRUE)
    \/ \E ow \in BOOLEAN : add_keywords(<<<<97>>>>, ow)

Spec == Init /\ [][Next]_vars

\* loading: every file, and clearing
NextLoad ==
    \/ \E f \in AllFiles : load_file(f)
    \/ clear_metadata

SpecLoad == Init /\ [][NextLoad]_vars

\* loading and saving
NextFile ==
    \/ \E f \in Files \cup {ExifFile(NameJpeg, OddExif), File(NameHidden, TRUE, EmptyMap)} :
          load_file(f)
    \/ \E fn \in {<<>>, <<111, 46, 106, 112, 103>>}, ow \in BOOLEAN : save_file(fn, ow)
    \/ clear_metadata

SpecFile == Init /\ [][NextFile]_vars

\* keywords
NextKeywords ==
    \/ \E f \in KeywordFiles : load_file(f)
    \/ \E K \in KeywordLists, ow \in BOOLEAN : add_keywords(K, ow)
    \/ clear_metadata

SpecKeywords == Init /\ [][NextKeywords]_vars

\* position
NextGps ==
    \/ \E f \in KeywordFiles : load_file(f)
    \/ \E lat \in Angles, lon \in Angles, alt \in Altitudes, msl \in BOOLEAN :
          set_gps_data(lat, lon, alt, msl)
    \/ clear_metadata

SpecGps == Init /\ [][NextGps]_vars

\* camera maker, camera model, copyright
NextText ==
    \/ \E f \in KeywordFiles : load_file(f)
    \/ \E s \in Texts : set_camera_maker(s)
    \/ \E s \in Texts : set_camera_model(s)
    \/ \E s \in Texts : set_copyright(s)
    \/ clear_metadata

SpecText == Init /\ [][NextText]_vars

\* dates
NextDate ==
    \/ \E f \in KeywordFiles : load_file(f)
    \/ \E d \in Dates : set_date_original(d)
    \/ \E d \in Dates : set_date_digitized(d)
    \/ clear_metadata

SpecDate == Init /\ [][NextDate]_vars

(***************************************************************************)
(* Properties                                                              *)
(***************************************************************************)
Sign(x) == IF x > 0 THEN 1 ELSE IF x < 0 THEN -1 ELSE 0
Loaded == _filepath # None /\ metadata # EmptyMap
Returned(op) == last.op = op /\ last.exc = ""

\* C1: save_file writes only for editable formats: after loading a file
\* whose extension is editable (JPG, JPEG) the call passes the check and
\* the output file is written; after loading a readable but not editable
\* file (PNG) the call fails with AssertionError and nothing was ever
\* written from such a file.
C1_SaveOnlyEditable ==
    /\ \A w \in disk : Extension(w.source) \in EDITABLE_EXTENSIONS
    /\ (last.op = "save_file" /\ _filepath # None) =>
          IF Extension(_filepath.v) \in EDITABLE_EXTENSIONS
          THEN last.exc = "" /\ \E w \in disk : w.source = _filepath.v
          ELSE last.exc = "AssertionError"

\* C2: with overwrite=False the keywords accumulate: after add_keywords
\* calls that all had overwrite=False since the file was loaded,
\* get_keywords holds every keyword the file held at load time and every
\* keyword given since.
C2_KeywordsAccumulate ==
    (Returned("add_keywords") /\ hist.valid) =>
        /\ get_keywords(metadata).exc = ""
        /\ (hist.held \cup hist.given) \subseteq Elems(get_keywords(metadata).val)

\* C3: add_keywords(K, overwrite=True) then get_keywords() returns exactly
\* K, for every list K (the empty list included) whose keywords hold
\* neither ';' nor NUL.
Plain(K) == \A i \in 1..Len(K) : ~InSeq(SEMICOLON, K[i]) /\ ~InSeq(NUL, K[i])
C3_KeywordsRoundTrip ==
    (Returned("add_keywords") /\ last.arg[2] /\ Plain(last.arg[1])) =>
        get_keywords(metadata)
            = Ok(List([i \in 1..Len(last.arg[1]) |-> Str(last.arg[1][i])]))

\* C4: set_gps_data(lat, lon, alt, msl) then get_gps_data() returns a
\* latitude with the sign of lat, a longitude with the sign of lon and the
\* same mean_sea_level flag.
C4_GpsSignsKept ==
    Returned("set_gps_data") =>
        LET g == get_gps_data(metadata)
        IN /\ g.exc = ""
           /\ Sign(g.val.lat) = Sign(last.arg[1])
           /\ Sign(g.val.lon) = Sign(last.arg[2])
           /\ g.val.msl = last.arg[4]

\* C5: set_camera_maker(s) then get_camera_maker() returns the str s, and
\* likewise for the camera model and the copyright; a getter of an absent
\* field returns "".
TextAbsent(tag) == "0th" \in DOMAIN metadata /\ metadata["0th"].t = "dict"
                   /\ tag \notin DOMAIN metadata["0th"].v
C5_TextRoundTrip ==
    /\ Returned("set_camera_maker") => get_camera_maker(metadata) = Ok(last.arg)
    /\ Returned("set_camera_model") => get_camera_model(metadata) = Ok(last.arg)
    /\ Returned("set_copyright") => get_copyright(metadata) = Ok(last.arg)
    /\ TextAbsent("Make") => get_camera_maker(metadata) = Ok(Str(<<>>))
    /\ TextAbsent("Model") => get_camera_model(metadata) = Ok(Str(<<>>))
    /\ TextAbsent("Copyright") => get_copyright(metadata) = Ok(Str(<<>>))

\* C6: has_valid_date_original (has_valid_date_digitized) is True exactly
\* when the date is present in metadata['Exif'] and its bytes parse as a
\* date-time; bytes that do not parse give the sentinel datetime(1, 1, 1);
\* after set_date_original(d) the check is True for every d.
Parses(b) ==
    /\ b.t = "bytes"
    /\ utf8_decode(b.v).exc = ""
    /\ str2datetime(utf8_decode(b.v).val, 58, 32, 58).exc = ""
DateRule(tag, valid, get) ==
    LET present == tag \in DOMAIN metadata["Exif"].v
        stored == metadata["Exif"].v[tag]
    IN /\ valid = Ok(present /\ Parses(stored))
       /\ (present /\ stored.t = "bytes" /\ ~Parses(stored))
             => get = Ok(datetime(1, 1, 1, 0, 0, 0))
C6_ValidDates ==
    ("Exif" \in DOMAIN metadata /\ metadata["Exif"].t = "dict") =>
        /\ DateRule("DateTimeOriginal", has_valid_date_original(metadata),
                    get_date_original(metadata))
        /\ DateRule("DateTimeDigitized", has_valid_date_digitized(metadata),
                    get_date_digitized(metadata))
        /\ Returned("set_date_original") => has_valid_date_original(metadata) = Ok(TRUE)
        /\ Returned("set_date_digitized") => has_valid_date_digitized(metadata) = Ok(TRUE)

\* C7: load_file accepts a file only when its upper-cased suffix without
\* the dot is in READABLE_EXTENSIONS; for any other suffix the call raises
\* AssertionError and metadata, the remembered path and the temporary
\* keyword list stay as they were.
C7_LoadChecksSuffix ==
    [][last'.op = "load_file" =>
          IF Extension(last'.arg.name) \in READABLE_EXTENSIONS
          THEN last'.exc # "AssertionError"
          ELSE /\ last'.exc = "AssertionError"
               /\ UNCHANGED <<metadata, _filepath, _temporal_keywords>>]_vars

\* a file with another suffix was refused while a file was loaded
C7_Witness ==
    /\ last.op = "load_file" /\ last.exc = "AssertionError"
    /\ Extension(last.arg.name) \notin READABLE_EXTENSIONS
    /\ Loaded /\ _filepath.v = NamePng

\* C8: whenever load_file returns, metadata has the keys 'Exif', '0th',
\* '1st' and 'GPS', each a dict: the content read from the file when the
\* file's EXIF block has the key, an empty dict otherwise, so that the
\* mutators can be called without KeyError.
BasicKeys == {"Exif", "0th", "1st", "GPS"}
C8_BasicKeys ==
    Returned("load_file") =>
        \A k \in BasicKeys :
            /\ k \in DOMAIN metadata
            /\ metadata[k].t = "dict"
            /\ SetItem(metadata, k, "Tag", None).exc # "KeyError"
            /\ ("exif" \in DOMAIN last.arg.info /\ last.arg.info["exif"].load.exc = ""
                /\ k \notin DOMAIN last.arg.info)
                  => metadata[k] = last.arg.info["exif"].load.val.v[k]
            /\ ("exif" \notin DOMAIN last.arg.info /\ k \notin DOMAIN last.arg.info)
                  => metadata[k] = EmptyDict

\* C9: _load_exif_data returns a dict whatever piexif.load did with each
\* info entry (success or any handled error, the 'exif' entry included):
\* it does not raise, every info key but 'exif' is a top-level key of the
\* result, and so are the four basic keys.
C9_LoadExifTotal ==
    (last.op = "load_file" /\ last.exc # "AssertionError" /\ last.arg.image) =>
        LET r == _load_exif_data(last.arg, TRUE)
        IN /\ r.exc = ""
           /\ r.val.t = "dict"
           /\ ((DOMAIN last.arg.info) \ {"exif"}) \cup BasicKeys \subseteq DOMAIN r.val.v

\* C10: the presence checks are total: in every reachable state each of
\* has_gps_data, has_date_original, has_date_digitized,
\* has_valid_date_original and has_valid_date_digitized returns a boolean
\* and does not raise.
C10_ChecksTotal ==
    \A r \in {has_gps_data(metadata), has_date_original(metadata),
              has_date_digitized(metadata), has_valid_date_original(metadata),
              has_valid_date_digitized(metadata)} :
        r.exc = "" /\ r.val \in BOOLEAN
====
